---- MODULE Spec2Model ----
(***************************************************************************)
(* Model of the loan market simulation's borrower core:                    *)
(*   - ReplayMemory (borrower.py): a deque with maxlen, push and sample.   *)
(*   - Borrower (borrower.py): loans, debt, payment history, credit score, *)
(*     epsilon-greedy evaluate_loan with the affordability veto, the       *)
(*     training step update_state and update_target_network.               *)
(*   - Loan (loan.py): amortised balance, make_payment calling back into   *)
(*     Borrower.make_payment, reset.                                       *)
(*                                                                         *)
(* Abstractions.  Network weights are one integer per network; an          *)
(* optimizer step adds a delta chosen from Deltas (0 is the Adam update of *)
(* a zero first moment).  An Experience is identified by the ordinal of    *)
(* its push (every push builds a new tuple object); tensor contents are    *)
(* not modelled.  Money is exact integer arithmetic: the loan parameters   *)
(* are chosen so that every monthly payment and every half balance is an   *)
(* integer; ratios are kept as <<numerator, denominator>> pairs and        *)
(* compared by cross-multiplication.  Random draws (random.random,         *)
(* np.random.random) are tenths chosen from small sets.  annual_income,    *)
(* reward_history and avg_reward are written but never read by the         *)
(* modelled operations and are left out.                                   *)
(***************************************************************************)
EXTENDS Integers, Sequences, FiniteSets, TLC

\* ---------------------------------------------------------------- bounds
MaxCap == 3          \* capacities of a stand-alone ReplayMemory: 1..MaxCap
ExtraPushes == 2     \* pushes allowed beyond capacity / beyond batch_size
MaxSampleLen == 3    \* direct sample() calls are made on buffers this long
MaxSteps == 2        \* evaluate_loan calls with a loan
MaxHistory == 3      \* length of payment_history
MaxLoanList == 2     \* length of Borrower.loans
MaxOverpay == 1      \* payments attempted on a loan whose balance is <= 0
MaxMissed == 2       \* missed payments of one loan
MaxLoanHistory == 2  \* length of loan_history

\* ------------------------------------------------------ program constants
BatchSize == 128
EngineCapacity == 50000

\* ----------------------------------------------------------- input sets
LoanIds == {1, 2}
Amount == [l \in LoanIds |-> 2100]
Term == [l \in LoanIds |-> l]
AnnualRate == <<12, 10>>           \* interest_rate = 1.2
Incomes == {18000, 55000}
InitialScores == {840}             \* best_values['highest_credit_score']
RiskTolerances == {3, 6}           \* tenths, np.random.uniform(0.1, 0.7)
Literacies == {8}                  \* tenths, np.random.uniform(0.5, 0.9)
UDraws == {2, 9}                   \* tenths, np.random.random()
Deltas == {-1, 0, 1}               \* weight change of one optimizer step

VARIABLES
    memory,             \* ReplayMemory.memory: sequence of Experience ids
    capacity,           \* the deque's maxlen
    pushed,             \* number of Experiences built so far (next id - 1)
    policy_net,         \* Borrower.policy_net weights
    target_net,         \* Borrower.target_net weights
    synced,             \* policy weights at the last load_state_dict
    opt_steps,          \* Adam's step count
    steps_done,         \* Borrower.steps_done
    credit_score, income, debt,
    loans,              \* Borrower.loans: sequence of loan ids
    payment_history,    \* Borrower.payment_history
    loan_history,       \* Borrower.loan_history
    risk_tolerance, financial_literacy,
    loan,               \* the Loan objects
    call                \* the last call: operation, argument, outcome

memVars == <<memory, capacity, pushed>>
netVars == <<policy_net, target_net, synced, opt_steps>>
borrowerVars == <<credit_score, income, debt, loans, payment_history,
                  loan_history, risk_tolerance, financial_literacy>>
vars == <<memory, capacity, pushed, policy_net, target_net, synced, opt_steps,
          steps_done, credit_score, income, debt, loans, payment_history,
          loan_history, risk_tolerance, financial_literacy, loan, call>>

\* ---------------------------------------------------------------- helpers
Min(a, b) == IF a < b THEN a ELSE b
Max(a, b) == IF a > b THEN a ELSE b

RECURSIVE Pow(_, _)
Pow(b, n) == IF n = 0 THEN 1 ELSE b * Pow(b, n - 1)

RECURSIVE GCD(_, _)
GCD(a, b) == IF b = 0 THEN a ELSE GCD(b, a % b)

Range(s) == {s[i] : i \in 1..Len(s)}

RECURSIVE SumSeq(_)
SumSeq(s) == IF s = <<>> THEN 0 ELSE Head(s) + SumSeq(Tail(s))

\* A ratio <<n, d>> with d > 0 compared with the ratio a / b, b > 0.
RatioGT(r, a, b) == r[1] * b > a * r[2]
RatioLT(r, a, b) == r[1] * b < a * r[2]

\* list.remove(x): the first occurrence goes; the caller checks membership.
RECURSIVE RemoveFirst(_, _)
RemoveFirst(s, x) ==
    IF s = <<>> THEN <<>>
    ELSE IF Head(s) = x THEN Tail(s)
    ELSE <<Head(s)>> \o RemoveFirst(Tail(s), x)

\* The record every call leaves behind.
NoCall == [op |-> "init", arg |-> 0, ret |-> "None", out |-> <<>>,
           explore |-> FALSE, sel |-> 0, ur |-> 0, ul |-> 0,
           sampled |-> FALSE, delta |-> 0]

\* ------------------------------------------------------------ ReplayMemory
\* deque([], maxlen=capacity).append: a full deque drops its oldest item.
PushDropsNewest(mem, cap, e) ==
    IF Len(mem) >= cap THEN mem ELSE Append(mem, e)

Push(mem, cap, e) ==
    LET app == Append(mem, e)
    IN  IF Len(app) > cap THEN Tail(app) ELSE app

\* random.sample(population, k) raises ValueError when k > len or k < 0.
SampleRaises(mem, n) == n > Len(mem) \/ n < 0

\* random.sample otherwise: k items at pairwise different positions, in the
\* order they were drawn.
SampleWithReplacement(mem, n) ==
    {[i \in 1..n |-> mem[p[i]]] : p \in [1..n -> 1..Len(mem)]}

SampleResults(mem, n) ==
    {[i \in 1..n |-> mem[p[i]]] :
        p \in {q \in [1..n -> 1..Len(mem)] :
                 \A i, j \in 1..n : i # j => q[i] # q[j]}}

\* memory.push(...) on a stand-alone buffer.
MemoryPush ==
    /\ pushed < capacity + ExtraPushes
    /\ memory' = Push(memory, capacity, pushed + 1)
    /\ pushed' = pushed + 1
    /\ call' = [NoCall EXCEPT !.op = "push", !.arg = pushed + 1]
    /\ UNCHANGED <<capacity, netVars, steps_done, borrowerVars, loan>>

\* memory.sample(n), called directly.
MemorySample(n) ==
    /\ Len(memory) <= MaxSampleLen
    /\ IF SampleRaises(memory, n)
       THEN call' = [NoCall EXCEPT !.op = "sample", !.arg = n,
                                   !.ret = "ValueError"]
       ELSE \E r \in SampleResults(memory, n) :
                call' = [NoCall EXCEPT !.op = "sample", !.arg = n,
                                       !.ret = "ok", !.out = r]
    /\ UNCHANGED <<memVars, netVars, steps_done, borrowerVars, loan>>

\* -------------------------------------------------------------------- Loan
NewLoan(l) == [amount |-> Amount[l], interest_rate |-> AnnualRate,
               term |-> Term[l], balance |-> Amount[l], payments_made |-> 0,
               missed_payments |-> 0, is_active |-> TRUE,
               total_interest_paid |-> 0]

\* r = interest_rate / 12 as a reduced ratio.
MonthlyRate(rate) ==
    LET g == GCD(rate[1], 12 * rate[2])
    IN  <<rate[1] \div g, (12 * rate[2]) \div g>>

\* amount * r * (1 + r)^n / ((1 + r)^n - 1), with r = p / q.
MonthlyPayment(l) ==
    LET r == MonthlyRate(loan[l].interest_rate)
        p == r[1]
        q == r[2]
        n == loan[l].term
    IN  (loan[l].amount * p * Pow(q + p, n))
            \div (q * (Pow(q + p, n) - Pow(q, n)))

\* balance * (interest_rate / 12)
InterestPortion(l, balance) ==
    LET r == MonthlyRate(loan[l].interest_rate)
    IN  (balance * r[1]) \div r[2]

\* ---------------------------------------------------------------- Borrower
GetPaymentSuccessRate ==
    IF payment_history = <<>> THEN <<1, 1>>
    ELSE LET n == Len(payment_history)
             last == SubSeq(payment_history, Max(1, n - 99), n)
         IN  <<SumSeq(last), Len(last)>>

SumPayments(ls) == SumSeq([i \in 1..Len(ls) |-> MonthlyPayment(ls[i])])

\* sum(monthly payments) / (income / 12) if income > 0 else 0
DebtToIncomeRatio ==
    IF income > 0 THEN <<12 * SumPayments(loans), income>> ELSE <<0, 1>>

CanBorrow == RatioLT(DebtToIncomeRatio, 6, 10)

ImproveCreditScore(score, points) == Max(300, Min(850, score + points))

\* min(1.0, max(0.0, disposable_income / monthly_payment)), 0 when the
\* monthly payment is <= 0; disposable income is kept times 12.
CalculateAffordability(l) ==
    LET m == MonthlyPayment(l)
        disposable12 == income - 12 * SumPayments(loans) - debt
    IN  IF m <= 0 THEN <<0, 1>>
        ELSE IF disposable12 <= 0 THEN <<0, 1>>
        ELSE IF disposable12 >= 12 * m THEN <<1, 1>>
        ELSE <<disposable12, 12 * m>>

\* The veto of evaluate_loan: affordability > 0.7, or affordability > 0.5 with
\* both factors > 0.5 (hundredths) and a payment success rate > 0.7.
VetoIgnoresHistory(aff, rf, lf, psr) ==
    \/ RatioGT(aff, 7, 10)
    \/ (RatioGT(aff, 5, 10) /\ rf > 50 /\ lf > 50)

VetoPasses(aff, rf, lf, psr) ==
    \/ RatioGT(aff, 7, 10)
    \/ (RatioGT(aff, 5, 10) /\ rf > 50 /\ lf > 50 /\ RatioGT(psr, 7, 10))

\* self.steps_done += 1
StepsNotCounted(s) == s

NextStepsDone(s) == s + 1

\* evaluate_loan(loan, market_state); l = 0 is None.  The comparison of the
\* uniform sample with eps_threshold is the choice of explore; the argmax of
\* the policy network and random.randrange(2) are the choice of a.
EvaluateLoan(l) ==
    \/ /\ l = 0
       /\ call' = [NoCall EXCEPT !.op = "evaluate_loan", !.ret = "False"]
       /\ UNCHANGED <<memVars, netVars, steps_done, borrowerVars, loan>>
    \/ /\ l # 0
       /\ steps_done < MaxSteps
       /\ steps_done' = NextStepsDone(steps_done)
       /\ \E explore \in BOOLEAN, a \in {0, 1}, ur \in UDraws, ul \in UDraws :
            LET vetoed == a = 1
                decision ==
                    IF vetoed
                    THEN VetoPasses(CalculateAffordability(l),
                                    ur * risk_tolerance,
                                    ul * financial_literacy,
                                    GetPaymentSuccessRate)
                    ELSE FALSE
            IN  call' = [NoCall EXCEPT
                           !.op = "evaluate_loan", !.arg = l,
                           !.ret = IF decision THEN "True" ELSE "False",
                           !.explore = explore, !.sel = a,
                           !.ur = IF vetoed THEN ur ELSE 0,
                           !.ul = IF vetoed THEN ul ELSE 0]
       /\ UNCHANGED <<memVars, netVars, borrowerVars, loan>>

\* apply_for_loan(loan)
ApplyForLoan(l) ==
    /\ Len(loans) < MaxLoanList
    /\ Len(loan_history) < MaxLoanHistory
    /\ IF CanBorrow
       THEN /\ loans' = Append(loans, l)
            /\ debt' = debt + loan[l].balance
            /\ loan_history' = Append(loan_history, 1)
            /\ call' = [NoCall EXCEPT !.op = "apply_for_loan", !.arg = l,
                                      !.ret = "True"]
       ELSE /\ UNCHANGED <<loans, debt, loan_history>>
            /\ call' = [NoCall EXCEPT !.op = "apply_for_loan", !.arg = l,
                                      !.ret = "False"]
    /\ UNCHANGED <<memVars, netVars, steps_done, credit_score, income,
                   payment_history, risk_tolerance, financial_literacy, loan>>

\* recover_loan(loan): the removal is wrapped in try/except ValueError.
RecoverLoan(l) ==
    /\ Len(loan_history) < MaxLoanHistory
    /\ loans' = RemoveFirst(loans, l)
    /\ debt' = Max(0, debt - (loan[l].balance \div 2))
    /\ loan_history' = Append(loan_history, 0)
    /\ call' = [NoCall EXCEPT !.op = "recover_loan", !.arg = l]
    /\ UNCHANGED <<memVars, netVars, steps_done, credit_score, income,
                   payment_history, risk_tolerance, financial_literacy, loan>>

\* Borrower.make_payment(loan): what it returns and what it leaves behind.
\* self.loans.remove(loan) is not guarded: it raises ValueError, after the
\* balance was reduced, when the loan is not in the list.
BorrowerPay(l) ==
    LET payment == MonthlyPayment(l)
        newbal == loan[l].balance - payment
        same == [ret |-> "False", balance |-> loan[l].balance, loans |-> loans,
                 credit_score |-> credit_score,
                 payment_history |-> payment_history]
    IN  IF (income \div 12) >= payment
        THEN IF newbal <= 0
             THEN IF l \in Range(loans)
                  THEN [same EXCEPT
                          !.ret = "True", !.balance = newbal,
                          !.loans = RemoveFirst(loans, l),
                          !.credit_score = ImproveCreditScore(credit_score, 10),
                          !.payment_history = Append(payment_history, 1)]
                  ELSE [same EXCEPT !.ret = "ValueError", !.balance = newbal]
             ELSE [same EXCEPT !.ret = "True", !.balance = newbal,
                               !.payment_history = Append(payment_history, 1)]
        ELSE [same EXCEPT !.payment_history = Append(payment_history, 0)]

PayAllowed(l) ==
    /\ Len(payment_history) < MaxHistory
    /\ loan[l].missed_payments < MaxMissed
    /\ loan[l].balance > -(MaxOverpay * MonthlyPayment(l))

\* Borrower.make_payment(loan), called directly.
BorrowerMakePayment(l) ==
    /\ PayAllowed(l)
    /\ LET b == BorrowerPay(l)
       IN  /\ loan' = [loan EXCEPT ![l].balance = b.balance]
           /\ loans' = b.loans
           /\ credit_score' = b.credit_score
           /\ payment_history' = b.payment_history
           /\ call' = [NoCall EXCEPT !.op = "Borrower.make_payment",
                                     !.arg = l, !.ret = b.ret]
    /\ UNCHANGED <<memVars, netVars, steps_done, income, debt, loan_history,
                   risk_tolerance, financial_literacy>>

\* Loan.make_payment()
LoanMakePayment(l) ==
    IF ~loan[l].is_active
    THEN /\ call' = [NoCall EXCEPT !.op = "Loan.make_payment", !.arg = l,
                                   !.ret = "False"]
         /\ UNCHANGED <<memVars, netVars, steps_done, borrowerVars, loan>>
    ELSE /\ PayAllowed(l)
         /\ LET payment == MonthlyPayment(l)
                b == BorrowerPay(l)
                bal == b.balance - payment
            IN  /\ loans' = b.loans
                /\ credit_score' = b.credit_score
                /\ payment_history' = b.payment_history
                /\ call' = [NoCall EXCEPT !.op = "Loan.make_payment",
                                          !.arg = l, !.ret = b.ret]
                /\ loan' =
                     IF b.ret = "ValueError"
                     THEN [loan EXCEPT ![l].balance = b.balance]
                     ELSE IF b.ret = "True"
                     THEN [loan EXCEPT
                             ![l].balance = bal,
                             ![l].payments_made = @ + 1,
                             ![l].total_interest_paid =
                                 @ + InterestPortion(l, bal),
                             ![l].is_active = IF bal <= 0 THEN FALSE ELSE @]
                     ELSE [loan EXCEPT ![l].missed_payments = @ + 1]
         /\ UNCHANGED <<memVars, netVars, steps_done, income, debt,
                        loan_history, risk_tolerance, financial_literacy>>

\* Loan.reset()
LoanReset(l) ==
    /\ loan' = [loan EXCEPT ![l] = NewLoan(l)]
    /\ call' = [NoCall EXCEPT !.op = "Loan.reset", !.arg = l]
    /\ UNCHANGED <<memVars, netVars, steps_done, borrowerVars>>

\* Borrower.reset(): networks, optimizer and steps_done are kept.
BorrowerReset ==
    /\ loans' = <<>>
    /\ debt' = 0
    /\ loan_history' = <<>>
    /\ payment_history' = <<>>
    /\ call' = [NoCall EXCEPT !.op = "reset"]
    /\ UNCHANGED <<memVars, netVars, steps_done, credit_score, income,
                   risk_tolerance, financial_literacy, loan>>

\* ------------------------------------------------------------- training
\* if len(self.memory) < self.batch_size: return
TrainsAboveBatch(n) == ~(n <= BatchSize)

ShouldTrain(n) == ~(n < BatchSize)

\* update_state(...): push, then train when the buffer is long enough.  The
\* optimizer holds the policy network's parameters only.
UpdateState ==
    /\ pushed < BatchSize + ExtraPushes
    /\ LET mem == Push(memory, capacity, pushed + 1)
       IN  /\ memory' = mem
           /\ pushed' = pushed + 1
           /\ IF ~ShouldTrain(Len(mem))
              THEN /\ call' = [NoCall EXCEPT !.op = "update_state"]
                   /\ UNCHANGED netVars
              ELSE IF SampleRaises(mem, BatchSize)
              THEN /\ call' = [NoCall EXCEPT !.op = "update_state",
                                             !.ret = "ValueError",
                                             !.sampled = TRUE]
                   /\ UNCHANGED netVars
              ELSE \E d \in Deltas :
                     /\ policy_net' = policy_net + d
                     /\ opt_steps' = opt_steps + 1
                     /\ call' = [NoCall EXCEPT !.op = "update_state",
                                               !.sampled = TRUE, !.delta = d]
                     /\ UNCHANGED <<target_net, synced>>
    /\ UNCHANGED <<capacity, steps_done, borrowerVars, loan>>

\* target_net.load_state_dict(policy_net.state_dict())
LoadKeepsTarget(src, dst) == dst

LoadStateDict(src, dst) == src

UpdateTargetNetwork ==
    /\ target_net' = LoadStateDict(policy_net, target_net)
    /\ synced' = policy_net
    /\ call' = [NoCall EXCEPT !.op = "update_target_network"]
    /\ UNCHANGED <<memVars, policy_net, opt_steps, steps_done, borrowerVars,
                   loan>>

\* ------------------------------------------------------- specifications
\* Borrower.__init__ and Loan.__init__
BorrowerInit ==
    /\ credit_score \in InitialScores
    /\ income \in Incomes
    /\ debt = 0
    /\ loans = <<>>
    /\ payment_history = <<>>
    /\ loan_history = <<>>
    /\ risk_tolerance \in RiskTolerances
    /\ financial_literacy \in Literacies
    /\ loan = [l \in LoanIds |-> NewLoan(l)]
    /\ policy_net = 0
    /\ target_net = 0
    /\ synced = 0
    /\ opt_steps = 0
    /\ steps_done = 0
    /\ call = NoCall

Init ==
    /\ BorrowerInit
    /\ memory = <<>>
    /\ capacity = EngineCapacity
    /\ pushed = 0

\* The borrower, its loans and its decisions.
Next ==
    \/ \E l \in LoanIds : ApplyForLoan(l)
    \/ \E l \in LoanIds : LoanMakePayment(l)
    \/ \E l \in LoanIds : BorrowerMakePayment(l)
    \/ \E l \in LoanIds : RecoverLoan(l)
    \/ \E l \in LoanIds : LoanReset(l)
    \/ BorrowerReset

Spec == Init /\ [][Next]_vars

\* The borrower deciding on offers while it borrows and pays.
NextDecide ==
    \/ \E l \in LoanIds : ApplyForLoan(l)
    \/ \E l \in LoanIds : LoanMakePayment(l)
    \/ \E l \in LoanIds \cup {0} : EvaluateLoan(l)

SpecDecide == Init /\ [][NextDecide]_vars

\* The decision engine: evaluation, training, target synchronisation.
NextEngine ==
    \/ \E l \in LoanIds \cup {0} : EvaluateLoan(l)
    \/ UpdateState
    \/ UpdateTargetNetwork
    \/ BorrowerReset
    \/ \E n \in 0..(MaxSampleLen + 1) : MemorySample(n)

SpecEngine == Init /\ [][NextEngine]_vars

\* A stand-alone ReplayMemory(capacity).
InitMemory ==
    /\ BorrowerInit
    /\ memory = <<>>
    /\ capacity \in 1..MaxCap
    /\ pushed = 0

NextMemory ==
    \/ MemoryPush
    \/ \E n \in 0..(MaxSampleLen + 1) : MemorySample(n)

SpecMemory == InitMemory /\ [][NextMemory]_vars

\* ------------------------------------------------------------------ claims

\* C1: the buffer never holds more than capacity items and evicts in strict
\* FIFO order: after k pushes it holds exactly the last min(k, capacity)
\* pushed transitions in insertion order; after capacity + 1 pushes it holds
\* capacity items and the first pushed transition is gone.
C1_FifoEviction ==
    LET m == Min(pushed, capacity)
    IN  /\ Len(memory) <= capacity
        /\ Len(memory) = m
        /\ \A i \in 1..m : memory[i] = pushed - m + i
        /\ (pushed = capacity + 1 =>
                Len(memory) = capacity /\ 1 \notin Range(memory))

C1_Witness ==
    /\ call.op = "push"
    /\ capacity = MaxCap
    /\ pushed = capacity + 1
    /\ Len(memory) = capacity

\* C2 as stated: update_state called on a buffer of 127 transitions performs
\* no optimizer step and leaves the policy weights alone; called on a buffer
\* of 128 it performs a step that changes the policy weights.
C2_Original ==
    [][call'.op = "update_state" =>
         /\ (Len(memory) = BatchSize - 1 =>
                opt_steps' = opt_steps /\ policy_net' = policy_net)
         /\ (Len(memory) = BatchSize =>
                opt_steps' = opt_steps + 1 /\ policy_net' # policy_net)]_vars

\* C2 amended: update_state pushes its own transition before it compares the
\* buffer length with batch_size.  Called on a buffer of at most 126
\* transitions it performs no optimizer step and leaves the policy weights
\* alone; called on a buffer of 127 or more it performs exactly one optimizer
\* step, which changes the policy weights whenever its update is non-zero.
C2_TrainsFromBatchSize ==
    [][call'.op = "update_state" =>
         /\ (Len(memory) <= BatchSize - 2 =>
                /\ opt_steps' = opt_steps
                /\ policy_net' = policy_net
                /\ ~call'.sampled)
         /\ (Len(memory) >= BatchSize - 1 =>
                /\ opt_steps' = opt_steps + 1
                /\ call'.sampled
                /\ (call'.delta # 0 => policy_net' # policy_net))]_vars

C2_Witness ==
    /\ call.op = "update_state"
    /\ Len(memory) = BatchSize
    /\ opt_steps = 1
    /\ policy_net # 0

\* C3 as stated: a loan is active exactly when its balance is positive.
C3_Original ==
    \A l \in LoanIds : loan[l].is_active <=> loan[l].balance > 0

\* C4 as stated: a Loan.make_payment that returns True lowers the balance by
\* exactly one monthly payment.
C4_Original ==
    [][\A l \in LoanIds :
         (call'.op = "Loan.make_payment" /\ call'.arg = l
            /\ call'.ret = "True")
         => loan'[l].balance = loan[l].balance - MonthlyPayment(l)]_vars

\* C5 as stated: no borrower or loan operation raises.
C5_Original == call.ret # "ValueError"

\* C6: the target weights equal the policy weights as of the most recent
\* update_target_network (or construction); training never changes them and
\* right after update_target_network both networks agree.
C6_TargetFrozen ==
    /\ target_net = synced
    /\ (call.op = "update_target_network" => target_net = policy_net)
    /\ (opt_steps = 0 /\ synced = 0 => target_net = 0)

C6_Witness ==
    /\ call.op = "update_state"
    /\ opt_steps >= 2
    /\ synced # 0
    /\ target_net = synced
    /\ target_net # policy_net

\* C7: steps_done never decreases; evaluate_loan with a loan adds exactly 1
\* whatever was selected and decided; evaluate_loan(None), update_state,
\* update_target_network and reset leave it alone.
C7_StepsDone ==
    [][/\ steps_done' >= steps_done
       /\ (call'.op = "evaluate_loan" /\ call'.arg # 0
             => steps_done' = steps_done + 1)
       /\ (call'.op = "evaluate_loan" /\ call'.arg = 0
             => steps_done' = steps_done)
       /\ (call'.op \in {"update_state", "update_target_network", "reset"}
             => steps_done' = steps_done)]_vars

C7_Witness ==
    /\ call.op = "evaluate_loan"
    /\ call.arg # 0
    /\ ~call.explore
    /\ call.sel = 1
    /\ call.ret = "False"
    /\ steps_done = MaxSteps
    /\ opt_steps > 0

\* C8: evaluate_loan accepts exactly when the selected action is accept and
\* the veto passes (affordability > 0.7, or affordability > 0.5 with risk and
\* literacy factors > 0.5 and payment success rate > 0.7); a selected reject
\* stays a reject, None is rejected, and nothing with affordability <= 0.5 is
\* accepted.
C8_Decision ==
    call.op = "evaluate_loan" =>
        LET accept == call.ret = "True"
        IN  IF call.arg = 0 THEN ~accept
            ELSE LET aff == CalculateAffordability(call.arg)
                     psr == GetPaymentSuccessRate
                 IN  /\ accept <=>
                           /\ call.sel = 1
                           /\ \/ aff[1] * 10 > 7 * aff[2]
                              \/ /\ aff[1] * 10 > 5 * aff[2]
                                 /\ call.ur * risk_tolerance > 50
                                 /\ call.ul * financial_literacy > 50
                                 /\ psr[1] * 10 > 7 * psr[2]
                     /\ (call.sel = 0 => ~accept)
                     /\ (accept => aff[1] * 10 > 5 * aff[2])

C8_Witness ==
    /\ call.op = "evaluate_loan"
    /\ call.arg # 0
    /\ call.ret = "True"
    /\ ~RatioGT(CalculateAffordability(call.arg), 7, 10)
    /\ payment_history # <<>>

\* C9: sample(n) raises when n exceeds the buffer length and otherwise returns
\* n pairwise distinct stored transitions; the buffer is unchanged either way;
\* update_state never calls sample on fewer than batch_size transitions.
C9_Sample ==
    [][/\ (call'.op = "sample" =>
             /\ memory' = memory
             /\ IF call'.arg > Len(memory)
                THEN call'.ret = "ValueError"
                ELSE /\ call'.ret = "ok"
                     /\ Len(call'.out) = call'.arg
                     /\ \A i \in 1..Len(call'.out) :
                            call'.out[i] \in Range(memory)
                     /\ \A i, j \in 1..Len(call'.out) :
                            i # j => call'.out[i] # call'.out[j])
       /\ (call'.op = "update_state" =>
             /\ call'.ret # "ValueError"
             /\ (call'.sampled => Len(memory') >= BatchSize))]_vars

C9_Witness ==
    /\ call.op = "sample"
    /\ call.ret = "ok"
    /\ Len(call.out) = 2
    /\ Len(memory) = MaxSampleLen

\* C10 as stated: every loan in Borrower.loans is active with a positive
\* balance.
C10_Original ==
    \A i \in 1..Len(loans) :
        loan[loans[i]].is_active /\ loan[loans[i]].balance > 0
====
